---- MODULE Spec2Model ----
(***************************************************************************)
(* The Indexer of package database (src/unnamed/part_002) over its bolt    *)
(* store: identifier allocation (getId), the per-term goroutines of        *)
(* UpdateOrAddPage, the in-memory staging of the inverted index, the       *)
(* per-word batch transactions of FlushInverted, and DropAll.              *)
(*                                                                         *)
(* Ids are the uint64 values themselves; uint64ToByte / byteToUint64 are   *)
(* fixed-width encodings of them and a bucket key is written as the        *)
(* number it encodes.  The repository has no go.mod (GOPATH imports), so a *)
(* range variable is one variable per loop, shared with the goroutines     *)
(* and closures started in the loop body.                                  *)
(***************************************************************************)
EXTENDS Integers, Sequences, FiniteSets, TLC

\* ---------------------------------------------------------------- bounds
\* Completed top-level calls (UpdateOrAddPage, FlushInverted, DropAll) of a
\* run of Spec.
MaxCalls == 5
\* Largest word id a bucket sequence may hand out.
MaxWordId == 8
\* Tokens of all documents of the position index together (PhraseSpec).
MaxTokens == 4
\* Longest query (PhraseSpec).
MaxQuery == 3
\* Width in bits of the unsigned offsets of a position list: the model keeps
\* uint64's wrap-around at a width that is larger than every offset in use.
UintBits == 4

\* ---------------------------------------------------------------- inputs
Urls == {"u1", "u2"}
Terms == {"a", "b"}
Freqs == {0, 1, 2}

NoId == 0
\* sync.Mutex not held.
Unlocked == 0
NoText == ""
NoTf == -1

PageIds == 1..Cardinality(Urls)
\* The terms of document contents and queries (PhraseSpec).
Tokens == Terms \cup {"c"}
WordIds == 1..MaxWordId

WordMaps == UNION {[S -> Freqs] : S \in SUBSET Terms}

\* models.Document as the Indexer reads it: p.Uri, p.Words, p.MaxTf.
AllDocuments == [Uri : Urls, Words : WordMaps, MaxTf : Freqs]

NoDoc == [Uri |-> NoText, Words |-> << >>, MaxTf |-> 0]

\* The documents of Spec, whose runs are sequences of calls: u1 with no
\* term (two values of MaxTf) or with the term a, u2 with the term b at
\* frequency 0 or 1.
Documents ==
    {d \in AllDocuments :
        \/ d.Uri = "u1" /\ DOMAIN d.Words = {} /\ d.MaxTf \in {1, 2}
        \/ d.Uri = "u1" /\ DOMAIN d.Words = {"a"} /\ d.Words["a"] = 1 /\ d.MaxTf = 1
        \/ d.Uri = "u2" /\ DOMAIN d.Words = {"b"} /\ d.Words["b"] \in {0, 1}
                        /\ d.MaxTf = d.Words["b"]}

\* The documents of IngestSpec, whose runs are one UpdateOrAddPage call on
\* an empty store (where the url does not matter): every map of up to two
\* terms, MaxTf being the largest frequency.
IngestDocuments ==
    {d \in AllDocuments :
        /\ d.Uri = "u1"
        /\ \A t \in DOMAIN d.Words : d.Words[t] <= d.MaxTf
        /\ (DOMAIN d.Words # {} => \E t \in DOMAIN d.Words : d.Words[t] = d.MaxTf)}

\* ---------------------------------------------------------------- store
\* One key of the ForwardTable bucket: absent, a plain value (setMaxTf) or
\* a nested bucket of wordId -> tf (updateForward).
NoEntry == [kind |-> "none", val |-> 0, set |-> [w \in WordIds |-> NoTf]]
ValEntry(n) == [kind |-> "val", val |-> n, set |-> [w \in WordIds |-> NoTf]]

\* Every table of the store, freshly created (LoadIndexer, DropAll).
EmptyDb ==
    [UrlToPageId   |-> [u \in Urls |-> NoId],
     PageIdToUrl   |-> [i \in PageIds |-> NoText],
     WordToWordId  |-> [t \in Terms |-> NoId],
     WordIdToWord  |-> [i \in WordIds |-> NoText],
     seqUrl        |-> 0,
     seqWord       |-> 0,
     ForwardTable  |-> [i \in PageIds |-> NoEntry],
     InvertedTable |-> [i \in WordIds |-> {}],
     PageInfo      |-> [i \in PageIds |-> NoDoc]]

VARIABLES
    db,            \* the committed bolt store
    tempInverted,  \* Indexer.tempInverted: wordId -> set of pageIds
    wordIdList,    \* Indexer.wordIdList
    mu,            \* Indexer.Mutex: the iteration whose staging goroutine holds it
    pc,            \* position of the calling goroutine
    p,             \* UpdateOrAddPage: the document
    pageId,        \* UpdateOrAddPage: pageId
    seenPage,      \* history: lastRet[p.Uri] when getOrCreatePageId was called
    todo,          \* UpdateOrAddPage: keys of p.Words the range has not visited
    word,          \* UpdateOrAddPage: range variable word
    tf,            \* UpdateOrAddPage: range variable tf
    tasks,         \* UpdateOrAddPage: the goroutines started by the loop
    idx,           \* FlushInverted: range position
    id,            \* FlushInverted: range variable id
    ftasks,        \* FlushInverted: the batch calls started by the loop
    calls,         \* history: number of completed calls
    last,          \* history: the call that returned last
    ingested,      \* history: url -> document of its last completed ingestion
    flushed,       \* history: urls whose ingested document a flush followed
    pre,           \* history: posting lists when a re-ingestion was called
    epoch,         \* history: number of DropAll calls so far
    ever,          \* history: every (table, id, text, epoch) a getId transaction wrote
    lastRet,       \* history: text -> id the last completed getId(text) returned
    content,       \* the position index the Viewer reads: pageId -> token sequence
    rpc,           \* position of the goroutine running searchPhrase
    query,         \* searchPhrase / splitToBigrams: query
    bigrams,       \* searchPhrase: bigrams
    docWithBigrams,\* searchPhrase: docWithBigrams
    docIDs         \* searchPhrase: docIDs, the value returned

histVars == <<calls, last, ingested, flushed, pre, epoch>>
updVars == <<p, pageId, seenPage, todo, word, tf, tasks>>
flushVars == <<idx, id, ftasks>>
memVars == <<tempInverted, wordIdList>>

idxVars == <<db, memVars, mu, pc, updVars, flushVars, histVars, ever, lastRet>>
retrVars == <<content, rpc, query, bigrams, docWithBigrams, docIDs>>

vars == <<idxVars, retrVars>>

Kinds == {"inv", "fwd"}
Iters == 1..Cardinality(Terms)
NoTask == [pc |-> "none", word |-> NoText, tf |-> NoTf, id |-> NoId, seen |-> NoId]
NoTasks == [k \in Iters |-> [g \in Kinds |-> NoTask]]

NoPre == [on |-> FALSE, inv |-> EmptyDb.InvertedTable]
NoCall == [op |-> "none", doc |-> NoDoc, inv |-> EmptyDb.InvertedTable,
           late |-> FALSE, pre |-> NoPre]
NoRet == [t \in Urls \cup Terms |-> NoId]

NoContent == [i \in PageIds |-> << >>]

\* The retrieval side before any query.
ViewerIdle ==
    /\ rpc = "idle"
    /\ query = << >>
    /\ bigrams = << >>
    /\ docWithBigrams = << >>
    /\ docIDs = << >>

\* LoadIndexer on a new file.
IndexerInit ==
    /\ db = EmptyDb
    /\ tempInverted = [w \in WordIds |-> {}]
    /\ wordIdList = << >>
    /\ mu = Unlocked
    /\ pc = "idle"
    /\ p = NoDoc
    /\ pageId = NoId
    /\ seenPage = NoId
    /\ todo = {}
    /\ word = NoText
    /\ tf = NoTf
    /\ tasks = NoTasks
    /\ idx = 0
    /\ id = NoId
    /\ ftasks = << >>
    /\ calls = 0
    /\ last = NoCall
    /\ ingested = [u \in Urls |-> NoDoc]
    /\ flushed = {}
    /\ pre = NoPre
    /\ epoch = 0
    /\ ever = {}
    /\ lastRet = NoRet

Init ==
    /\ IndexerInit
    /\ content = NoContent
    /\ ViewerIdle

\* ---------------------------------------------------------------- helpers
\* bolt runs one read-write transaction at a time: a batch whose calls ran
\* and has not committed yet holds the writer lock.
NoPendingTx == \A i \in DOMAIN ftasks : ftasks[i].pc # "ran"

Panicked == pc = "panic"

\* What the closures of the open batch transaction wrote, on top of table.
Merged(table) ==
    [w \in WordIds |->
        table[w] \cup UNION {ftasks[i].pages :
            i \in {j \in DOMAIN ftasks : ftasks[j].pc = "ran" /\ ftasks[j].idBytes = w}}]

\* getId's db.View: the id the forward map holds for text, or nil.
getIdView(d, text, fwMapTable) == d[fwMapTable][text]

\* Bucket.NextSequence of the bucket whose sequence is seq: the incremented value.
NextSequence(d, seq) == d[seq] + 1

\* A getId transaction that hands out the next sequence value and does not
\* store it in the bucket.
getIdBatchNoSeq(d, text, fwMapTable, invMapTable, seq) ==
    LET uniqueId == NextSequence(d, seq)
    IN  [d EXCEPT ![fwMapTable][text] = uniqueId,
                  ![invMapTable][uniqueId] = text]

\* getId's db.Batch: NextSequence of the forward map's bucket, then the Put
\* into the forward map and the Put into the inverse map, in one transaction.
getIdBatch(d, text, fwMapTable, invMapTable, seq) ==
    LET uniqueId == NextSequence(d, seq)
    IN  [d EXCEPT ![seq] = uniqueId,
                  ![fwMapTable][text] = uniqueId,
                  ![invMapTable][uniqueId] = text]

\* sort.Slice(wordIdList, less) with less = (<): ascending insertion sort.
RECURSIVE Insert(_, _)
Insert(x, s) ==
    IF s = << >> THEN <<x>>
    ELSE IF x < Head(s) THEN <<x>> \o s
         ELSE <<Head(s)>> \o Insert(x, Tail(s))

RECURSIVE SortSlice(_)
SortSlice(s) == IF s = << >> THEN << >> ELSE Insert(Head(s), SortSlice(Tail(s)))

\* ---------------------------------------------------------------- UpdateOrAddPage
\* The call, up to the db.View of getOrCreatePageId(p.Uri).
UpdateOrAddPage(doc, maxCalls) ==
    /\ pc = "idle"
    /\ calls < maxCalls
    /\ p' = doc
    /\ pageId' = getIdView(db, doc.Uri, "UrlToPageId")
    /\ seenPage' = lastRet[doc.Uri]
    /\ todo' = DOMAIN doc.Words
    /\ tasks' = NoTasks
    /\ word' = NoText
    /\ tf' = NoTf
    /\ IF pageId' = NoId
       THEN /\ pc' = "getPageId"
            /\ UNCHANGED lastRet
       ELSE /\ pc' = IF DOMAIN doc.Words = {} THEN "wait" ELSE "range"
            /\ lastRet' = [lastRet EXCEPT ![doc.Uri] = pageId']
    /\ pre' = IF ingested[doc.Uri] = doc /\ doc.Uri \in flushed
              THEN [on |-> TRUE, inv |-> Merged(db.InvertedTable)] ELSE NoPre
    /\ UNCHANGED <<db, memVars, flushVars, calls, last, ingested, flushed, epoch, ever>>
    /\ UNCHANGED <<mu, retrVars>>

\* getOrCreatePageId: the db.Batch of getId for a url with no id.
getOrCreatePageId ==
    /\ pc = "getPageId"
    /\ NoPendingTx
    /\ db.seqUrl < Cardinality(PageIds)
    /\ db' = getIdBatch(db, p.Uri, "UrlToPageId", "PageIdToUrl", "seqUrl")
    /\ pageId' = NextSequence(db, "seqUrl")
    /\ ever' = ever \cup {<<"url", pageId', p.Uri, epoch>>}
    /\ lastRet' = [lastRet EXCEPT ![p.Uri] = pageId']
    /\ pc' = IF todo = {} THEN "wait" ELSE "range"
    /\ UNCHANGED <<memVars, p, seenPage, todo, word, tf, tasks, flushVars, histVars>>
    /\ UNCHANGED <<mu, retrVars>>

\* for word, tf := range p.Words: the key of the next iteration is assigned
\* (Go visits a map in an unspecified order).
RangeWord ==
    /\ pc = "range"
    /\ \E t \in todo : word' = t
    /\ pc' = "rangeTf"
    /\ UNCHANGED <<db, memVars, p, pageId, seenPage, todo, tf, tasks, flushVars, histVars, ever, lastRet>>
    /\ UNCHANGED <<mu, retrVars>>

\* ... then its value, and the body starts the two goroutines.
RangeTf ==
    /\ pc = "rangeTf"
    /\ tf' = p.Words[word]
    /\ todo' = todo \ {word}
    /\ LET k == Cardinality(DOMAIN p.Words) - Cardinality(todo) + 1
       IN  tasks' = [tasks EXCEPT ![k] = [g \in Kinds |-> [NoTask EXCEPT !.pc = "spawned"]]]
    /\ pc' = IF todo' = {} THEN "wait" ELSE "range"
    /\ UNCHANGED <<db, memVars, p, pageId, seenPage, word, flushVars, histVars, ever, lastRet>>
    /\ UNCHANGED <<mu, retrVars>>

\* A goroutine evaluates the argument word of its call: it reads the range
\* variable as it is now.
GoEvalWord(k, g) ==
    /\ ~Panicked
    /\ tasks[k][g].pc = "spawned"
    /\ tasks' = [tasks EXCEPT ![k][g] =
                    [@ EXCEPT !.word = word,
                              !.seen = lastRet[word],
                              !.pc = IF g = "fwd" THEN "evalTf" ELSE "getId"]]
    /\ UNCHANGED <<db, memVars, pc, p, pageId, seenPage, todo, word, tf, flushVars, histVars, ever, lastRet>>
    /\ UNCHANGED <<mu, retrVars>>

\* The forward goroutine evaluates the argument tf after word and pageId.
GoEvalTf(k) ==
    /\ ~Panicked
    /\ tasks[k]["fwd"].pc = "evalTf"
    /\ tasks' = [tasks EXCEPT ![k]["fwd"] = [@ EXCEPT !.tf = tf, !.pc = "getId"]]
    /\ UNCHANGED <<db, memVars, pc, p, pageId, seenPage, todo, word, tf, flushVars, histVars, ever, lastRet>>
    /\ UNCHANGED <<mu, retrVars>>

AfterGetId(g) == IF g = "inv" THEN "stage" ELSE "put"

\* getOrCreateWordId: the db.View of getId.
getOrCreateWordIdView(k, g) ==
    /\ ~Panicked
    /\ tasks[k][g].pc = "getId"
    /\ LET t == tasks[k][g].word
           res == getIdView(db, t, "WordToWordId")
       IN  IF res # NoId
           THEN /\ tasks' = [tasks EXCEPT ![k][g] = [@ EXCEPT !.id = res, !.pc = AfterGetId(g)]]
                /\ lastRet' = [lastRet EXCEPT ![t] = res]
           ELSE /\ tasks' = [tasks EXCEPT ![k][g].pc = "create"]
                /\ UNCHANGED lastRet
    /\ UNCHANGED <<db, memVars, pc, p, pageId, seenPage, todo, word, tf, flushVars, histVars, ever>>
    /\ UNCHANGED <<mu, retrVars>>

\* getOrCreateWordId: the db.Batch of getId, entered because the View found
\* no id; it does not look the text up again.
getOrCreateWordIdBatch(k, g) ==
    /\ ~Panicked
    /\ tasks[k][g].pc = "create"
    /\ NoPendingTx
    /\ db.seqWord < MaxWordId
    /\ LET t == tasks[k][g].word
       IN  /\ db' = getIdBatch(db, t, "WordToWordId", "WordIdToWord", "seqWord")
           /\ tasks' = [tasks EXCEPT ![k][g] = [@ EXCEPT !.id = NextSequence(db, "seqWord"),
                                                         !.pc = AfterGetId(g)]]
           /\ ever' = ever \cup {<<"word", NextSequence(db, "seqWord"), t, epoch>>}
           /\ lastRet' = [lastRet EXCEPT ![t] = NextSequence(db, "seqWord")]
    /\ UNCHANGED <<memVars, pc, p, pageId, seenPage, todo, word, tf, flushVars, histVars>>
    /\ UNCHANGED <<mu, retrVars>>

\* updateInverted: i.Lock().
Lock(k) ==
    /\ ~Panicked
    /\ tasks[k]["inv"].pc = "stage"
    /\ mu = Unlocked
    /\ mu' = k
    /\ tasks' = [tasks EXCEPT ![k]["inv"].pc = "locked"]
    /\ UNCHANGED <<db, memVars, pc, p, pageId, seenPage, todo, word, tf, flushVars, histVars, ever, lastRet>>
    /\ UNCHANGED retrVars

\* updateInverted's critical section, i.Unlock(), then wg.Done().
updateInverted(k) ==
    /\ ~Panicked
    /\ tasks[k]["inv"].pc = "locked"
    /\ mu = k
    /\ mu' = Unlocked
    /\ LET wordId == tasks[k]["inv"].id
       IN  /\ wordIdList' = IF tempInverted[wordId] = {}
                            THEN Append(wordIdList, wordId) ELSE wordIdList
           /\ tempInverted' = [tempInverted EXCEPT ![wordId] = @ \cup {pageId}]
    /\ tasks' = [tasks EXCEPT ![k]["inv"].pc = "done"]
    /\ UNCHANGED <<db, pc, p, pageId, seenPage, todo, word, tf, flushVars, histVars, ever, lastRet>>
    /\ UNCHANGED retrVars

\* updateForward's db.Batch, then wg.Done().  CreateBucketIfNotExists fails
\* on a key that holds a plain value and returns a nil bucket; set.Put on it
\* is a nil dereference, which Batch re-raises when it runs the call alone.
updateForward(k) ==
    /\ ~Panicked
    /\ tasks[k]["fwd"].pc = "put"
    /\ NoPendingTx
    /\ IF db.ForwardTable[pageId].kind = "val"
       THEN /\ pc' = "panic"
            /\ UNCHANGED <<db, tasks>>
       ELSE /\ db' = [db EXCEPT !.ForwardTable[pageId] =
                        [kind |-> "bucket", val |-> 0,
                         set |-> [@.set EXCEPT ![tasks[k]["fwd"].id] = tasks[k]["fwd"].tf]]]
            /\ tasks' = [tasks EXCEPT ![k]["fwd"].pc = "done"]
            /\ UNCHANGED pc
    /\ UNCHANGED <<memVars, p, pageId, seenPage, todo, word, tf, flushVars, histVars, ever, lastRet>>
    /\ UNCHANGED <<mu, retrVars>>

\* A barrier sized len(p.Words) instead of 2 * len(p.Words): it opens as soon
\* as that many goroutines have called wg.Done.
WaitDoneHalf ==
    Cardinality({kg \in Iters \X Kinds : tasks[kg[1]][kg[2]].pc = "done"})
        >= Cardinality(DOMAIN p.Words)

\* wg.Wait(): the counter set by wg.Add(2 * len(p.Words)) is back to zero.
WaitDone ==
    \A k \in Iters : \A g \in Kinds :
        (k <= Cardinality(DOMAIN p.Words)) => tasks[k][g].pc = "done"

wgWait ==
    /\ pc = "wait"
    /\ WaitDone
    /\ pc' = "setMaxTf"
    /\ UNCHANGED <<db, memVars, updVars, flushVars, histVars, ever, lastRet>>
    /\ UNCHANGED <<mu, retrVars>>

\* setMaxTf: fwTable.Put(pageId, maxTf); Put fails (and writes nothing) on a
\* key that holds a nested bucket, and the error is dropped.
setMaxTf ==
    /\ pc = "setMaxTf"
    /\ NoPendingTx
    /\ db' = IF db.ForwardTable[pageId].kind = "bucket" THEN db
             ELSE [db EXCEPT !.ForwardTable[pageId] = ValEntry(p.MaxTf)]
    /\ pc' = "pageInfo"
    /\ UNCHANGED <<memVars, updVars, flushVars, histVars, ever, lastRet>>
    /\ UNCHANGED <<mu, retrVars>>

\* The last db.Batch of UpdateOrAddPage, and its return.
PutPageInfo ==
    /\ pc = "pageInfo"
    /\ NoPendingTx
    /\ db' = [db EXCEPT !.PageInfo[pageId] = p]
    /\ calls' = calls + 1
    /\ last' = [op |-> "U", doc |-> p, inv |-> db.InvertedTable, late |-> FALSE, pre |-> pre]
    /\ ingested' = [ingested EXCEPT ![p.Uri] = p]
    /\ flushed' = IF ingested[p.Uri] = p THEN flushed ELSE flushed \ {p.Uri}
    /\ pc' = "idle"
    /\ p' = NoDoc
    /\ pageId' = NoId
    /\ seenPage' = NoId
    /\ word' = NoText
    /\ tf' = NoTf
    /\ tasks' = NoTasks
    /\ UNCHANGED <<memVars, todo, flushVars, pre, epoch, ever, lastRet>>
    /\ UNCHANGED <<mu, retrVars>>

\* getMaxTf: Get returns nil for a missing key and for a nested bucket.
getMaxTf(d, pid) ==
    IF d.ForwardTable[pid].kind = "val" THEN d.ForwardTable[pid].val ELSE NoTf

\* ---------------------------------------------------------------- FlushInverted
\* The call: wordIdList := i.wordIdList shares the backing array, which
\* sort.Slice sorts in place.
FlushInverted(maxCalls) ==
    /\ pc = "idle"
    /\ calls < maxCalls
    /\ wordIdList' = SortSlice(wordIdList)
    /\ pc' = "flushUpdate"
    /\ UNCHANGED <<db, tempInverted, updVars, flushVars, histVars, ever, lastRet>>
    /\ UNCHANGED <<mu, retrVars>>

NoFtask == [pc |-> "none", idBytes |-> NoId, pages |-> {}, own |-> {}]

\* db.Update setting FillPercent, then wg.Add(len(wordIdList)).
FlushFillPercent ==
    /\ pc = "flushUpdate"
    /\ NoPendingTx
    /\ idx' = 0
    /\ id' = NoId
    /\ ftasks' = [i \in 1..Len(wordIdList) |-> NoFtask]
    /\ pc' = IF wordIdList = << >> THEN "flushWait" ELSE "flushRange"
    /\ UNCHANGED <<db, memVars, updVars, histVars, ever, lastRet>>
    /\ UNCHANGED <<mu, retrVars>>

\* One iteration of for index, id := range wordIdList: id is assigned, idBytes
\* is a new variable, and go i.db.Batch(closure) queues the call.
FlushRange ==
    /\ pc = "flushRange"
    /\ idx' = idx + 1
    /\ id' = wordIdList[idx']
    /\ ftasks' = [ftasks EXCEPT ![idx'] = [pc |-> "queued", idBytes |-> id', pages |-> {}, own |-> {}]]
    /\ pc' = IF idx' = Len(wordIdList) THEN "flushWait" ELSE "flushRange"
    /\ UNCHANGED <<db, memVars, updVars, histVars, ever, lastRet>>
    /\ UNCHANGED <<mu, retrVars>>

\* The closure runs inside a batch transaction: it reads the range variable
\* id as it is now, writes tempInverted[id] into the sub-bucket idBytes of
\* the open transaction, and calls wg.Done() before the transaction commits.
\* (own is history: what is staged under idBytes when the closure runs.)
FlushClosure(i) ==
    /\ ~Panicked
    /\ ftasks[i].pc = "queued"
    /\ ftasks' = [ftasks EXCEPT ![i] = [@ EXCEPT !.pc = "ran",
                                                   !.pages = tempInverted[id],
                                                   !.own = tempInverted[ftasks[i].idBytes]]]
    /\ UNCHANGED <<db, memVars, pc, updVars, idx, id, histVars, ever, lastRet>>
    /\ UNCHANGED <<mu, retrVars>>

InFlush == pc \in {"flushUpdate", "flushRange", "flushWait"}

\* The batch transaction commits what its closures wrote.
FlushCommit ==
    /\ ~Panicked
    /\ ~NoPendingTx
    /\ db' = [db EXCEPT !.InvertedTable = Merged(@)]
    /\ IF InFlush
       THEN /\ ftasks' = [i \in DOMAIN ftasks |->
                            IF ftasks[i].pc = "ran"
                            THEN [ftasks[i] EXCEPT !.pc = "committed", !.pages = {}, !.own = {}]
                            ELSE ftasks[i]]
            /\ UNCHANGED <<idx, id>>
       ELSE /\ ftasks' = << >>
            /\ idx' = 0
            /\ id' = NoId
    /\ UNCHANGED <<memVars, pc, updVars, histVars, ever, lastRet>>
    /\ UNCHANGED <<mu, retrVars>>

\* wg.Wait() of FlushInverted, and its return.
FlushDone == \A i \in DOMAIN ftasks : ftasks[i].pc \in {"ran", "committed"}

FlushWait ==
    /\ pc = "flushWait"
    /\ FlushDone
    /\ calls' = calls + 1
    /\ last' = [op |-> "F", doc |-> IF last.op = "U" THEN last.doc ELSE NoDoc,
                inv |-> db.InvertedTable, late |-> ~NoPendingTx,
                pre |-> IF last.op = "U" THEN last.pre ELSE NoPre]
    /\ flushed' = {u \in Urls : ingested[u] # NoDoc}
    /\ pre' = NoPre
    /\ pc' = "idle"
    /\ IF NoPendingTx
       THEN /\ ftasks' = << >>
            /\ idx' = 0
            /\ id' = NoId
       ELSE UNCHANGED flushVars
    /\ UNCHANGED <<db, memVars, updVars, ingested, epoch, ever, lastRet>>
    /\ UNCHANGED <<mu, retrVars>>

\* ---------------------------------------------------------------- DropAll
\* The buckets intToByte(0) .. intToByte(NumTable - 1).
Tables == <<"UrlToPageId", "PageIdToUrl", "WordToWordId", "WordIdToWord",
            "ForwardTable", "InvertedTable", "PageInfo">>
NumTable == Len(Tables)

\* tx.DeleteBucket(t); tx.CreateBucket(t): the bucket holds no key and its
\* sequence is 0.
Recreated(d, t) ==
    LET e == [d EXCEPT ![t] = EmptyDb[t]]
    IN  IF t = "UrlToPageId" THEN [e EXCEPT !.seqUrl = 0]
        ELSE IF t = "WordToWordId" THEN [e EXCEPT !.seqWord = 0]
        ELSE e

\* A loop that stops one table short: for i := 0; i < NumTable - 1; i++.
RECURSIVE DropFromShort(_, _)
DropFromShort(d, i) ==
    IF i < NumTable - 1 THEN DropFromShort(Recreated(d, Tables[i + 1]), i + 1) ELSE d

\* for i := 0; i < NumTable; i++ { DeleteBucket; CreateBucket }, from i on
\* (Tables is indexed from 1).
RECURSIVE DropFrom(_, _)
DropFrom(d, i) ==
    IF i < NumTable THEN DropFrom(Recreated(d, Tables[i + 1]), i + 1) ELSE d

\* One db.Update deletes and recreates every bucket; a recreated bucket's
\* sequence starts again at 0.  The Indexer's fields are not touched.
DropAll(maxCalls) ==
    /\ pc = "idle"
    /\ calls < maxCalls
    /\ NoPendingTx
    /\ db' = DropFrom(db, 0)
    /\ calls' = calls + 1
    /\ last' = [NoCall EXCEPT !.op = "D"]
    /\ ingested' = [u \in Urls |-> NoDoc]
    /\ flushed' = {}
    /\ pre' = NoPre
    /\ lastRet' = NoRet
    /\ epoch' = epoch + 1
    /\ UNCHANGED <<memVars, pc, updVars, flushVars, ever>>
    /\ UNCHANGED <<mu, retrVars>>

\* ---------------------------------------------------------------- specification
\* One step of the Indexer and its goroutines, with the caller's calls drawn
\* from docs and limited to maxCalls.
Step(docs, maxCalls) ==
    \/ \E doc \in docs : UpdateOrAddPage(doc, maxCalls)
    \/ getOrCreatePageId
    \/ RangeWord
    \/ RangeTf
    \/ \E k \in Iters : \E g \in Kinds : GoEvalWord(k, g)
    \/ \E k \in Iters : GoEvalTf(k)
    \/ \E k \in Iters : \E g \in Kinds : getOrCreateWordIdView(k, g)
    \/ \E k \in Iters : \E g \in Kinds : getOrCreateWordIdBatch(k, g)
    \/ \E k \in Iters : Lock(k)
    \/ \E k \in Iters : updateInverted(k)
    \/ \E k \in Iters : updateForward(k)
    \/ wgWait
    \/ setMaxTf
    \/ PutPageInfo
    \/ FlushInverted(maxCalls)
    \/ FlushFillPercent
    \/ FlushRange
    \/ \E i \in DOMAIN ftasks : FlushClosure(i)
    \/ FlushCommit
    \/ FlushWait
    \/ DropAll(maxCalls)

Next == Step(Documents, MaxCalls)

Spec == Init /\ [][Next]_vars

\* One UpdateOrAddPage call and its goroutines.
IngestNext ==
    \/ \E doc \in IngestDocuments : UpdateOrAddPage(doc, 1)
    \/ getOrCreatePageId
    \/ RangeWord
    \/ RangeTf
    \/ \E k \in Iters : \E g \in Kinds : GoEvalWord(k, g)
    \/ \E k \in Iters : GoEvalTf(k)
    \/ \E k \in Iters : \E g \in Kinds : getOrCreateWordIdView(k, g)
    \/ \E k \in Iters : \E g \in Kinds : getOrCreateWordIdBatch(k, g)
    \/ \E k \in Iters : Lock(k)
    \/ \E k \in Iters : updateInverted(k)
    \/ \E k \in Iters : updateForward(k)
    \/ wgWait
    \/ setMaxTf
    \/ PutPageInfo

IngestSpec == Init /\ [][IngestNext]_vars

\* ---------------------------------------------------------------- retrieval
\* Package retrieval (src/unnamed/part_000).  The Viewer, booleanFilter and
\* intersect are not in the sources at hand; they are written from the
\* design's description of them.
UintMod == 2 ^ UintBits

SeqsUpTo(n) == UNION {[1..k -> Tokens] : k \in 0..n}

\* The position indexes and the queries of PhraseSpec.
Contents ==
    {c \in [PageIds -> SeqsUpTo(MaxTokens)] :
        Len(c[1]) + Len(c[2]) <= MaxTokens}
Queries == SeqsUpTo(MaxQuery)

\* viewer.GetPositionIndices(id, term): the ascending zero-based offsets of
\* term in the document, as uint64 values.
RECURSIVE PositionsFrom(_, _, _)
PositionsFrom(doc, term, i) ==
    IF i > Len(doc) THEN << >>
    ELSE (IF doc[i] = term THEN <<i - 1>> ELSE << >>) \o PositionsFrom(doc, term, i + 1)

GetPositionIndices(c, docId, term) == PositionsFrom(c[docId], term, 1)

\* The posting list of a term: the ascending ids of the pages it occurs in.
RECURSIVE PostingsFrom(_, _, _)
PostingsFrom(c, term, i) ==
    IF i > Cardinality(PageIds) THEN << >>
    ELSE (IF \E j \in DOMAIN c[i] : c[i][j] = term THEN <<i>> ELSE << >>)
            \o PostingsFrom(c, term, i + 1)

\* intersect(a, b): the sorted two-pointer merge.
RECURSIVE intersectFrom(_, _, _, _)
intersectFrom(a, b, i, j) ==
    IF i > Len(a) \/ j > Len(b) THEN << >>
    ELSE IF a[i] = b[j] THEN <<a[i]>> \o intersectFrom(a, b, i + 1, j + 1)
    ELSE IF a[i] < b[j] THEN intersectFrom(a, b, i + 1, j)
    ELSE intersectFrom(a, b, i, j + 1)

intersect(a, b) == intersectFrom(a, b, 1, 1)

\* docIDs := lists[0]; for i >= 1: docIDs = intersect(docIDs, lists[i]).
RECURSIVE intersectAll(_, _, _)
intersectAll(acc, lists, i) ==
    IF i > Len(lists) THEN acc ELSE intersectAll(intersect(acc, lists[i]), lists, i + 1)

\* Lists in ascending order of size.
RECURSIVE InsertByLen(_, _)
InsertByLen(x, s) ==
    IF s = << >> THEN <<x>>
    ELSE IF Len(x) < Len(Head(s)) THEN <<x>> \o s
         ELSE <<Head(s)>> \o InsertByLen(x, Tail(s))

RECURSIVE SortByLen(_)
SortByLen(s) == IF s = << >> THEN << >> ELSE InsertByLen(Head(s), SortByLen(Tail(s)))

\* booleanFilter(terms): the posting lists of the terms, sorted by size and
\* intersected pairwise; the empty query gives the empty sequence.
booleanFilter(terms, c) ==
    IF terms = << >> THEN << >>
    ELSE LET lists == SortByLen([i \in DOMAIN terms |-> PostingsFrom(c, terms[i], 1)])
         IN  intersectAll(lists[1], lists, 2)

\* A loop that stops one pair early: for i := 0; (i+2) < len(query); i++.
RECURSIVE splitFromShort(_, _)
splitFromShort(q, i) ==
    IF i + 2 < Len(q)
    THEN <<[n1 |-> q[i + 1], n2 |-> q[i + 2]]>> \o splitFromShort(q, i + 1)
    ELSE << >>

splitToBigramsShort(q) == splitFromShort(q, 0)

\* for i := 0; (i+1) < len(query); i++ { append(Bigram{query[i], query[i+1]}) }
\* (q is indexed from 1).
RECURSIVE splitFrom(_, _)
splitFrom(q, i) ==
    IF i + 1 < Len(q)
    THEN <<[n1 |-> q[i + 1], n2 |-> q[i + 2]]>> \o splitFrom(q, i + 1)
    ELSE << >>

splitToBigrams(q) == splitFrom(q, 0)

\* pos2[i]-- on a uint64.
Decrement(x) == (x - 1) % UintMod

\* hasPhrase(bigram, viewer).
hasPhrase(bigram, c) ==
    LET docIds == booleanFilter(<<bigram.n1, bigram.n2>>, c)
        Keep(docId) ==
            LET pos1 == GetPositionIndices(c, docId, bigram.n1)
                pos2 == GetPositionIndices(c, docId, bigram.n2)
                dec2 == [i \in DOMAIN pos2 |-> Decrement(pos2[i])]
            IN  Len(intersect(pos1, dec2)) > 0
    IN  SelectSeq(docIds, Keep)

\* searchPhrase(query, viewer), up to the return for len(query) <= 1.
searchPhrase(q) ==
    /\ rpc = "idle"
    /\ query' = q
    /\ IF Len(q) <= 1
       THEN /\ docIDs' = booleanFilter(q, content)
            /\ rpc' = "done"
       ELSE /\ rpc' = "split"
            /\ UNCHANGED docIDs
    /\ UNCHANGED <<idxVars, content, bigrams, docWithBigrams>>

\* bigrams := splitToBigrams(query); docWithBigrams := make([][]uint64, 0).
BuildBigrams ==
    /\ rpc = "split"
    /\ bigrams' = splitToBigrams(query)
    /\ docWithBigrams' = << >>
    /\ rpc' = "hasPhrase"
    /\ UNCHANGED <<idxVars, content, query, docIDs>>

\* One iteration of for _, bigram := range bigrams.
HasPhraseLoop ==
    /\ rpc = "hasPhrase"
    /\ IF Len(docWithBigrams) < Len(bigrams)
       THEN /\ docWithBigrams' =
                  Append(docWithBigrams, hasPhrase(bigrams[Len(docWithBigrams) + 1], content))
            /\ UNCHANGED rpc
       ELSE /\ rpc' = "sort"
            /\ UNCHANGED docWithBigrams
    /\ UNCHANGED <<idxVars, content, query, bigrams, docIDs>>

\* sort.Slice(docWithBigrams, by len): not stable, any order that is
\* ascending in size.
SortDocWithBigrams ==
    /\ rpc = "sort"
    /\ \E perm \in Permutations(DOMAIN docWithBigrams) :
        /\ \A i, j \in DOMAIN docWithBigrams :
            i < j => Len(docWithBigrams[perm[i]]) <= Len(docWithBigrams[perm[j]])
        /\ docWithBigrams' = [i \in DOMAIN docWithBigrams |-> docWithBigrams[perm[i]]]
    /\ rpc' = "intersect"
    /\ UNCHANGED <<idxVars, content, query, bigrams, docIDs>>

\* docIDs = docWithBigrams[0], intersected with every other list; return.
IntersectDocs ==
    /\ rpc = "intersect"
    /\ docIDs' = intersectAll(docWithBigrams[1], docWithBigrams, 2)
    /\ rpc' = "done"
    /\ UNCHANGED <<idxVars, content, query, bigrams, docWithBigrams>>

\* A call of splitToBigrams on its own.
CallSplitToBigrams(q) ==
    /\ rpc = "idle"
    /\ query' = q
    /\ bigrams' = splitToBigrams(q)
    /\ rpc' = "splitDone"
    /\ UNCHANGED <<idxVars, content, docWithBigrams, docIDs>>

\* A Viewer on a position index, no Indexer running.
PhraseInit ==
    /\ IndexerInit
    /\ content \in Contents
    /\ ViewerIdle

PhraseNext ==
    \/ \E q \in Queries : searchPhrase(q)
    \/ BuildBigrams
    \/ HasPhraseLoop
    \/ SortDocWithBigrams
    \/ IntersectDocs
    \/ \E q \in Queries : CallSplitToBigrams(q)

PhraseSpec == PhraseInit /\ [][PhraseNext]_vars

\* ---------------------------------------------------------------- properties
\* The store as a reader sees it.
PageIdOf(url) == db.UrlToPageId[url]
WordIdOf(term) == db.WordToWordId[term]
PostingList(wordId) == db.InvertedTable[wordId]
ForwardTf(pid, wordId) ==
    IF db.ForwardTable[pid].kind = "bucket" THEN db.ForwardTable[pid].set[wordId] ELSE NoTf

\* The caller is between calls and the last call to return was op.
Returned(op) == pc = "idle" /\ last.op = op

\* The goroutines of the running UpdateOrAddPage call whose getId returned.
GotId == {kg \in Iters \X Kinds : tasks[kg[1]][kg[2]].pc \in {"stage", "locked", "put", "done"}}

\* C1: after UpdateOrAddPage(doc) and a following FlushInverted have
\* returned (and every batch transaction has committed), the posting list of
\* the word id of every term of doc holds the page id of doc.Uri.
C1_PostingListSoundness ==
    (Returned("F") /\ last.doc # NoDoc /\ NoPendingTx) =>
        \A t \in DOMAIN last.doc.Words :
            /\ WordIdOf(t) # NoId
            /\ PageIdOf(last.doc.Uri) # NoId
            /\ PageIdOf(last.doc.Uri) \in PostingList(WordIdOf(t))

\* A mapping pair is a bijection between the texts that have an id and the
\* ids the inverse table holds.
Bijective(fw, inv, texts, ids) ==
    /\ \A t \in texts : fw[t] # NoId => inv[fw[t]] = t
    /\ \A i \in ids : inv[i] # NoText => fw[inv[i]] = i
    /\ \A t1, t2 \in texts : (fw[t1] # NoId /\ fw[t1] = fw[t2]) => t1 = t2

\* C2: in every committed store state both mapping pairs are bijections.
C2_IdentifierBijectivity ==
    /\ Bijective(db.UrlToPageId, db.PageIdToUrl, Urls, PageIds)
    /\ Bijective(db.WordToWordId, db.WordIdToWord, Terms, WordIds)

\* C3: a getId(t) that was called after a getId(t) had returned (no DropAll
\* in between) returns the id that call returned, and the inverse table maps
\* the id to t.
C3_GetIdTwice ==
    /\ \A kg \in GotId :
        LET g == tasks[kg[1]][kg[2]]
        IN  /\ g.seen # NoId => g.id = g.seen
            /\ db.WordIdToWord[g.id] = g.word
    /\ pc \in {"range", "rangeTf", "wait", "setMaxTf", "pageInfo"} =>
        /\ seenPage # NoId => pageId = seenPage
        /\ db.PageIdToUrl[pageId] = p.Uri

\* C4: when UpdateOrAddPage(doc) has returned, the ForwardTable holds, under
\* the page id of doc.Uri and the word id of each term of doc, the term's tf.
C4_ForwardComplete ==
    Returned("U") =>
        \A t \in DOMAIN last.doc.Words :
            /\ PageIdOf(last.doc.Uri) # NoId
            /\ WordIdOf(t) # NoId
            /\ ForwardTf(PageIdOf(last.doc.Uri), WordIdOf(t)) = last.doc.Words[t]

\* C5: when UpdateOrAddPage(doc) has returned, getMaxTf of the page id of
\* doc.Uri is doc.MaxTf.
C5_MaxTfStored ==
    Returned("U") =>
        /\ PageIdOf(last.doc.Uri) # NoId
        /\ getMaxTf(db, PageIdOf(last.doc.Uri)) = last.doc.MaxTf

\* The goroutines the running UpdateOrAddPage call has to start.
Started == {kg \in Iters \X Kinds : kg[1] <= Cardinality(DOMAIN p.Words)}

\* The goroutine's write is in place: the page is staged under the word id
\* it resolved, or the forward entry it wrote is committed.
Written(kg) ==
    LET g == tasks[kg[1]][kg[2]]
    IN  /\ g.pc = "done"
        /\ kg[2] = "inv" => pageId \in tempInverted[g.id]
        /\ kg[2] = "fwd" => ForwardTf(pageId, g.id) # NoTf

\* C6: the writes of maxTf and of the PageInfo record start only after every
\* goroutine of the call has finished its staging update or committed its
\* forward write.
C6_JoinBarrier ==
    pc \in {"setMaxTf", "pageInfo"} => \A kg \in Started : Written(kg)

\* C6 witness: the barrier was passed by a call of two terms in which the
\* staging goroutine of the second iteration finished before the one of the
\* first.
C6_Witness ==
    /\ pc = "setMaxTf"
    /\ Cardinality(DOMAIN p.Words) = 2
    /\ Len(wordIdList) = 2
    /\ tasks[1]["inv"].id # tasks[2]["inv"].id
    /\ wordIdList[1] = tasks[2]["inv"].id
    /\ wordIdList[2] = tasks[1]["inv"].id

\* C7: when FlushInverted returns, the transaction of every staged word id
\* has committed and the staged page ids are in the word's posting list.
C7_FlushReturnsCommitted ==
    Returned("F") =>
        /\ ~last.late
        /\ \A w \in WordIds : tempInverted[w] \subseteq last.inv[w]

\* C8: after a completed FlushInverted (every batch transaction committed),
\* a posting list holds a page exactly when the page's forward entry has a
\* non-zero frequency for the word.
C8_PostingForwardAgreement ==
    (Returned("F") /\ NoPendingTx) =>
        \A w \in WordIds : \A i \in PageIds :
            (i \in PostingList(w)) <=> (ForwardTf(i, w) \notin {NoTf, 0})

\* C9 as claimed: over UpdateOrAddPage and DropAll calls, an id that was
\* assigned to a text is never assigned to another text of the same mapping
\* pair.
C9_IdsNeverReused ==
    \A e1, e2 \in ever : (e1[1] = e2[1] /\ e1[2] = e2[2]) => e1[3] = e2[3]

\* C9 as amended: between two DropAll calls (and before the first, and after
\* the last) an id that was assigned to a text is never assigned to another
\* text of the same mapping pair.
C9_IdsNeverReusedBetweenDrops ==
    \A e1, e2 \in ever :
        (e1[1] = e2[1] /\ e1[2] = e2[2] /\ e1[4] = e2[4]) => e1[3] = e2[3]

\* C9 witness: after a DropAll, two texts of one mapping pair were given ids.
C9_Witness ==
    \E e1, e2 \in ever :
        e1[1] = e2[1] /\ e1[4] = e2[4] /\ e1[4] > 0 /\ e1[3] # e2[3]

\* C10: re-ingesting an unchanged, already flushed document and flushing
\* again leaves the size of every posting list the page was in unchanged.
C10_ReingestIdempotent ==
    (Returned("F") /\ last.pre.on /\ NoPendingTx) =>
        \A w \in WordIds :
            PageIdOf(last.doc.Uri) \in last.pre.inv[w] =>
                Cardinality(PostingList(w)) = Cardinality(last.pre.inv[w])

\* C11: the step of DropAll replaces every table by an empty one at once, and
\* when DropAll has returned every table exists and holds no key.
C11_DropAllAtomic ==
    /\ [][epoch' # epoch =>
            \A i \in 1..NumTable : db'[Tables[i]] = EmptyDb[Tables[i]]]_vars
    /\ [](Returned("D") => \A i \in 1..NumTable : db[Tables[i]] = EmptyDb[Tables[i]])

\* C11 witness: DropAll has returned on a store that held ids, posting lists
\* and forward entries of two pages.
C11_Witness ==
    /\ Returned("D")
    /\ Cardinality({e \in ever : e[1] = "url" /\ e[4] = epoch - 1}) = 2
    /\ \E e \in ever : e[1] = "word" /\ e[4] = epoch - 1
    /\ flushVars = <<0, NoId, << >> >>
    /\ \E w \in WordIds : tempInverted[w] # {}

\* C14: every step that changes tempInverted or wordIdList is taken while the
\* Indexer's lock is held.
C14_StagingMutatedUnderLock ==
    [][memVars' # memVars => mu # Unlocked]_vars

\* C15: what a flush closure wrote into the sub-bucket of its word id is
\* exactly the page set staged under that word id.
C15_FlushWritesOwnPages ==
    \A i \in DOMAIN ftasks : ftasks[i].pc = "ran" => ftasks[i].pages = ftasks[i].own

\* C17: when the goroutines of an UpdateOrAddPage call are done, every term
\* of the document was staged under, and had its forward entry written
\* under, the one word id that WordToWordId holds for it.
C17_SameWordId ==
    pc \in {"setMaxTf", "pageInfo"} =>
        \A t \in DOMAIN p.Words :
            LET staged == {tasks[k]["inv"].id : k \in {j \in Iters : tasks[j]["inv"].word = t}}
                written == {tasks[k]["fwd"].id : k \in {j \in Iters : tasks[j]["fwd"].word = t}}
            IN  /\ staged = {WordIdOf(t)}
                /\ written = {WordIdOf(t)}

\* C18: a FlushInverted that returned (its transactions committed) after a
\* DropAll, with no UpdateOrAddPage since, leaves the InvertedTable empty.
C18_ResetLeavesNothing ==
    (Returned("F") /\ NoPendingTx /\ epoch > 0 /\ \A u \in Urls : ingested[u] = NoDoc) =>
        db.InvertedTable = EmptyDb.InvertedTable

\* Term x occurs in page d at some offset i and term y at offset i + 1.
Adjacent(d, x, y) ==
    \E i \in 1..(Len(content[d]) - 1) : content[d][i] = x /\ content[d][i + 1] = y

\* The terms of q occur in page d at consecutive offsets, in the order of q.
HasRun(d, q) ==
    \E i \in 0..(Len(content[d]) - Len(q)) : \A j \in 1..Len(q) : content[d][i + j] = q[j]

Range(s) == {s[i] : i \in DOMAIN s}

\* The n - 1 pairs (query[i], query[i+1]) in order.
AdjacentPairs(q) == [i \in 1..(Len(q) - 1) |-> [n1 |-> q[i], n2 |-> q[i + 1]]]

\* C12: for a query of two or more terms, searchPhrase returns a page if and
\* only if the query's terms occur in it as one run of consecutive offsets.
C12_SearchPhraseIsPhrase ==
    (rpc = "done" /\ Len(query) >= 2) =>
        \A d \in PageIds : (d \in Range(docIDs)) <=> HasRun(d, query)

\* C13: for distinct terms a and b, searchPhrase([a, b]) returns a page in
\* which a is immediately followed by b and b nowhere by a, and
\* searchPhrase([b, a]) does not return it.
C13_OrderSensitive ==
    (rpc = "done" /\ Len(query) = 2 /\ query[1] # query[2]) =>
        \A d \in PageIds :
            /\ (Adjacent(d, query[1], query[2]) /\ ~Adjacent(d, query[2], query[1]))
                    => d \in Range(docIDs)
            /\ (Adjacent(d, query[2], query[1]) /\ ~Adjacent(d, query[1], query[2]))
                    => d \notin Range(docIDs)

\* C16: hasPhrase(bigram) keeps exactly the pages in which the first term
\* occurs at some offset i and the second at i + 1.
C16_HasPhraseAdjacency ==
    rpc = "hasPhrase" =>
        \A k \in DOMAIN docWithBigrams : \A d \in PageIds :
            (d \in Range(docWithBigrams[k])) <=> Adjacent(d, bigrams[k].n1, bigrams[k].n2)

\* C19: splitToBigrams(query) is the sequence of the n - 1 adjacent pairs of
\* the query (none for n <= 1), and searchPhrase answers a query of at most
\* one term with booleanFilter(query), building no bigram.
C19_SplitToBigrams ==
    /\ (rpc = "splitDone" \/ (rpc \in {"hasPhrase", "sort", "intersect", "done"} /\ Len(query) >= 2))
            => bigrams = AdjacentPairs(query)
    /\ (rpc # "idle" /\ rpc # "splitDone" /\ Len(query) <= 1) =>
            /\ rpc = "done"
            /\ bigrams = << >>
            /\ docWithBigrams = << >>
            /\ docIDs = booleanFilter(query, content)

\* C19 witness: searchPhrase returned on a query of three terms that gave
\* two different bigrams.
C19_Witness ==
    /\ rpc = "done"
    /\ Len(query) = 3
    /\ Len(bigrams) = 2
    /\ bigrams[1] # bigrams[2]
    /\ docIDs # << >>

====
